---- MODULE Spec2Model ----
(***************************************************************************)
(* The adaptive hint engine of coderunnerhint: HintEngine.handle_hint      *)
(* (backend/app/services/hint_engine.py) over the sqlite store of          *)
(* backend/app/db.py.  Every db.* call opens its own connection and        *)
(* commits on its own, and FastAPI runs the synchronous /hint endpoint on  *)
(* a thread pool, so the db calls of concurrent requests interleave at the *)
(* boundaries of the calls; each call is one atomic step here.             *)
(*                                                                         *)
(* Scores are floats in the code.  A score is modelled exactly as          *)
(*   w + t * 5e-10      (w whole points, t a count of quanta of 5e-10)     *)
(* so that the tolerance 1e-9 of the feedback sign (2 quanta) and the      *)
(* rounding of the returned delta to 4 decimals are both visible.          *)
(***************************************************************************)
EXTENDS Integers, Sequences, FiniteSets, TLC

(***************************** bounds **************************************)
\* Requests accepted over a run (each thread serves them one after another).
MaxRequests == 3
\* Requests accepted over a run of the per-context sequential specification.
MaxSeqRequests == 4
\* Requests accepted over a run of the one-context specification.
MaxOneRequests == 5

Threads == {1, 2}
Contexts == {"k1", "k2"}

(************************** score arithmetic *******************************)
\* 1e-9 in quanta of 5e-10
Tolerance == 2

Sc(w, t) == [w |-> w, t |-> t]
Zero == Sc(0, 0)
ScoreSub(a, b) == Sc(a.w - b.w, a.t - b.t)
ScoreAdd(a, b) == Sc(a.w + b.w, a.t + b.t)
\* d > 0 for the real number d.w + d.t * 5e-10 (|d.t| stays far below 2e9)
Positive(d) == d.w > 0 \/ (d.w = 0 /\ d.t > 0)
\* d > 1e-9
AboveTolerance(d) == d.w > 0 \/ (d.w = 0 /\ d.t > Tolerance)
\* round(d, 4): the quanta are below half of 1e-4
Round4(d) == Sc(d.w, 0)

\* score / max_score >= num / den for a max_score > 0 in whole points (the
\* quanta cannot decide
\* it: the whole parts are integers and den * w = num * max has no solution
\* with 0 < max < den)
RatioAtLeast(score, max_score, num, den) ==
    IF score.w * den = num * max_score
    THEN score.t >= 0
    ELSE score.w * den > num * max_score

Min(a, b) == IF a < b THEN a ELSE b
Max(a, b) == IF a > b THEN a ELSE b

(****************************** the store **********************************)
\* attempts: the rows of table attempts in id order (row i has id i).
\* hint_stats: the rows of table hint_stats.
\* A NULL hint_level is 0 and a NULL hint_variant is "" (both are falsy in
\* the code, like NULL); improved_vs_previous is -1 for NULL, else 0 or 1;
\* delta_score is <<>> for NULL, else <<d>>.

StatKey(language, cluster_key, hint_level, hint_variant) ==
    [language |-> language, cluster_key |-> cluster_key,
     hint_level |-> hint_level, hint_variant |-> hint_variant]

RowKey(row) ==
    StatKey(row.language, row.cluster_key, row.hint_level, row.hint_variant)

\* INSERT INTO attempts: the new row gets the next id.
insert_attempt(atts, row) == Append(atts, [row EXCEPT !.id = Len(atts) + 1])

\* (mutant) ORDER BY id ASC: the oldest row of the context
get_first_attempt_for_context(atts, student_ctx, language) ==
    LET ids == {i \in 1..Len(atts) :
                    atts[i].ctx = student_ctx /\ atts[i].language = language}
    IN  IF ids = {} THEN <<>>
        ELSE <<atts[CHOOSE i \in ids : \A j \in ids : i <= j]>>

\* (mutant) the query without its WHERE clause: the newest row of the table
get_last_attempt_any_context(atts, student_ctx, language) ==
    IF atts = <<>> THEN <<>> ELSE <<atts[Len(atts)]>>

\* SELECT ... WHERE <context> ORDER BY id DESC LIMIT 1; <<>> is None.
get_last_attempt_for_context(atts, student_ctx, language) ==
    LET ids == {i \in 1..Len(atts) :
                    atts[i].ctx = student_ctx /\ atts[i].language = language}
    IN  IF ids = {} THEN <<>>
        ELSE LET last == CHOOSE i \in ids : \A j \in ids : j <= i
             IN  <<atts[last]>>

\* (mutant) a claim-and-update: ... WHERE id = ? AND improved_vs_previous IS NULL
update_attempt_improvement_once(atts, attempt_row_id, improved, delta_score) ==
    [i \in 1..Len(atts) |->
        IF i = attempt_row_id /\ atts[i].improved_vs_previous = -1
        THEN [atts[i] EXCEPT !.improved_vs_previous = IF improved THEN 1 ELSE 0,
                             !.delta_score = <<delta_score>>]
        ELSE atts[i]]

\* UPDATE attempts SET improved_vs_previous = ?, delta_score = ? WHERE id = ?
update_attempt_improvement(atts, attempt_row_id, improved, delta_score) ==
    [i \in 1..Len(atts) |->
        IF i = attempt_row_id
        THEN [atts[i] EXCEPT !.improved_vs_previous = IF improved THEN 1 ELSE 0,
                             !.delta_score = <<delta_score>>]
        ELSE atts[i]]

\* (mutant) a plain INSERT, as if the table had no UNIQUE constraint
bump_hint_stats_insert(stats, key, exposure_inc, improvement_inc, delta_inc) ==
    stats \cup {[language |-> key.language, cluster_key |-> key.cluster_key,
                 hint_level |-> key.hint_level, hint_variant |-> key.hint_variant,
                 exposures |-> exposure_inc, improvements |-> improvement_inc,
                 total_delta |-> delta_inc]}

\* (mutant) the upsert without the additions: DO UPDATE SET exposures =
\* excluded.exposures, ...
bump_hint_stats_overwrite(stats, key, exposure_inc, improvement_inc, delta_inc) ==
    {r \in stats : RowKey(r) # key}
        \cup {[language |-> key.language, cluster_key |-> key.cluster_key,
                hint_level |-> key.hint_level, hint_variant |-> key.hint_variant,
                exposures |-> exposure_inc, improvements |-> improvement_inc,
                total_delta |-> delta_inc]}

\* INSERT ... ON CONFLICT(language, cluster_key, hint_level, hint_variant)
\* DO UPDATE SET exposures = exposures + excluded.exposures, ...
bump_hint_stats(stats, key, exposure_inc, improvement_inc, delta_inc) ==
    IF \E r \in stats : RowKey(r) = key
    THEN {IF RowKey(r) = key
          THEN [r EXCEPT !.exposures = r.exposures + exposure_inc,
                         !.improvements = r.improvements + improvement_inc,
                         !.total_delta = ScoreAdd(r.total_delta, delta_inc)]
          ELSE r : r \in stats}
    ELSE stats \cup {[language |-> key.language, cluster_key |-> key.cluster_key,
                      hint_level |-> key.hint_level,
                      hint_variant |-> key.hint_variant,
                      exposures |-> exposure_inc,
                      improvements |-> improvement_inc,
                      total_delta |-> delta_inc]}

\* SELECT * FROM hint_stats WHERE language = ? AND cluster_key = ? AND
\* hint_level = ?  (the ORDER BY does not matter to the only caller, which
\* files the rows by variant)
get_hint_stats(stats, language, cluster_key, hint_level) ==
    {r \in stats : r.language = language /\ r.cluster_key = cluster_key
                   /\ r.hint_level = hint_level}

(**************************** LevelProgressor ******************************)
\* (mutant) the progression without its cap: prevlevel + 1
_decide_level_uncapped(previous) ==
    IF previous = <<>> THEN 1
    ELSE LET p == previous[1]
             mastery == p.max_score > 0
                        /\ RatioAtLeast(p.score, p.max_score, 999, 1000)
             prevlevel == IF p.hint_level = 0 THEN 1 ELSE p.hint_level
         IN  IF mastery THEN 1 ELSE prevlevel + 1

\* previous is <<>> (None) or <<row>>; max_score is in whole points.
_decide_level(previous) ==
    IF previous = <<>> THEN 1
    ELSE LET p == previous[1]
             mastery == p.max_score > 0
                        /\ RatioAtLeast(p.score, p.max_score, 999, 1000)
             prevlevel == IF p.hint_level = 0 THEN 1 ELSE p.hint_level
         IN  IF mastery THEN 1 ELSE Min(3, Max(1, prevlevel + 1))

(**************************** SignalClassifier *****************************)
\* The texts of a request are abstracted to what the cascade reads of them:
\*   rt     the RUNTIME_PATTERNS (by position) that match merged_runtime
\*   cp     the COMPILE_PATTERNS (by position) that match merged_compile
\*   failed whether failed_join is non-empty
\*   cues   the keyword lists (by position) with a keyword in failed_join
\*   feats  the code features the fallback reads
\* Confidences are in hundredths.
RUNTIME_PATTERNS ==
    << [cluster |-> "c_segfault",         hint_type |-> "runtime_memory", conf |-> 95],
       [cluster |-> "c_use_after_free",   hint_type |-> "memory",         conf |-> 98],
       [cluster |-> "c_double_free",      hint_type |-> "memory",         conf |-> 98],
       [cluster |-> "c_invalid_free",     hint_type |-> "memory",         conf |-> 97],
       [cluster |-> "c_out_of_bounds",    hint_type |-> "bounds",         conf |-> 94],
       [cluster |-> "c_null_dereference", hint_type |-> "pointers",       conf |-> 92] >>

COMPILE_PATTERNS ==
    << [cluster |-> "c_undeclared_identifier",   hint_type |-> "compile_symbol", conf |-> 92],
       [cluster |-> "c_type_mismatch",           hint_type |-> "types",          conf |-> 90],
       [cluster |-> "c_parameter_mismatch",      hint_type |-> "signature",      conf |-> 90],
       [cluster |-> "c_prototype_conflict",      hint_type |-> "prototype",      conf |-> 90],
       [cluster |-> "c_return_type_mismatch",    hint_type |-> "return_type",    conf |-> 86],
       [cluster |-> "c_pointer_deref_misuse",    hint_type |-> "pointers",       conf |-> 88],
       [cluster |-> "c_free_misuse_compile",     hint_type |-> "memory",         conf |-> 76],
       [cluster |-> "c_warning_unused_variable", hint_type |-> "warning_unused", conf |-> 55] >>

FAILED_TEST_CUES ==
    << [cluster |-> "c_logic_edge_case_empty",   hint_type |-> "edge_case",     conf |-> 80],
       [cluster |-> "c_logic_edge_case_single",  hint_type |-> "edge_case",     conf |-> 76],
       [cluster |-> "c_output_format",           hint_type |-> "output_format", conf |-> 75],
       [cluster |-> "c_logic_bounds_off_by_one", hint_type |-> "bounds",        conf |-> 79] >>

First(S) == CHOOSE i \in S : \A j \in S : i <= j

\* (mutant) the guard as max_score == 0: a negative max_score is divided by
_safe_ratio_zero_only(score, max_score) ==
    LET sc == IF max_score < 0 THEN Sc(0 - score.w, 0 - score.t) ELSE score
        mx == IF max_score < 0 THEN 0 - max_score ELSE max_score
    IN  IF mx = 0 THEN [n |-> Zero, d |-> 1]
        ELSE IF ~Positive(sc) THEN [n |-> Zero, d |-> 1]
        ELSE IF sc.w > mx \/ (sc.w = mx /\ sc.t > 0)
             THEN [n |-> Sc(1, 0), d |-> 1]
        ELSE [n |-> sc, d |-> mx]

\* The ratio as a fraction n / d, clamped to [0, 1]; 0 when max_score <= 0.
_safe_ratio(score, max_score) ==
    IF max_score <= 0 THEN [n |-> Zero, d |-> 1]
    ELSE IF ~Positive(score) THEN [n |-> Zero, d |-> 1]
    ELSE IF score.w > max_score \/ (score.w = max_score /\ score.t > 0)
         THEN [n |-> Sc(1, 0), d |-> 1]
    ELSE [n |-> score, d |-> max_score]

AnalysisResult(rule) ==
    [cluster_key |-> rule.cluster, hint_type |-> rule.hint_type,
     confidence |-> rule.conf]

\* (mutant) the compile loop before the runtime loop
analyze_compile_first(req) ==
    LET sig == req.sig
        ratio == _safe_ratio(req.score, req.max_score)
        full == RatioAtLeast(ratio.n, ratio.d, 99, 100)
        \* the loop over COMPILE_PATTERNS: the first match returns, unless it
        \* is the unused-variable warning at full score, which breaks
        cpfirst == IF sig.cp = {} THEN 0 ELSE First(sig.cp)
        cphit == cpfirst # 0
                 /\ ~(COMPILE_PATTERNS[cpfirst].cluster = "c_warning_unused_variable"
                      /\ full)
    IN  IF cphit THEN AnalysisResult(COMPILE_PATTERNS[cpfirst])
        ELSE IF sig.rt # {} THEN AnalysisResult(RUNTIME_PATTERNS[First(sig.rt)])
        ELSE IF sig.failed /\ sig.cues # {}
             THEN AnalysisResult(FAILED_TEST_CUES[First(sig.cues)])
        ELSE IF ~full
             THEN IF sig.feats.uses_free /\ ~sig.feats.null_check_after_malloc
                     /\ sig.feats.uses_malloc
                  THEN [cluster_key |-> "c_memory_malloc_no_null_check",
                        hint_type |-> "memory", confidence |-> 62]
                  ELSE IF sig.feats.has_for_loop /\ sig.feats.uses_array_index
                  THEN [cluster_key |-> "c_logic_loop_bounds_generic",
                        hint_type |-> "logic_loop", confidence |-> 58]
                  ELSE [cluster_key |-> "c_logic_generic_failed_tests",
                        hint_type |-> "logic_generic", confidence |-> 45]
        ELSE [cluster_key |-> "c_no_hint_needed", hint_type |-> "none",
              confidence |-> 20]

\* (mutant) the warning skipped only above 0.99: score_ratio > 0.99
analyze_strict_full(req) ==
    LET sig == req.sig
        ratio == _safe_ratio(req.score, req.max_score)
        full == RatioAtLeast(ratio.n, ratio.d, 99, 100)
        \* the loop over COMPILE_PATTERNS: the first match returns, unless it
        \* is the unused-variable warning at full score, which breaks
        cpfirst == IF sig.cp = {} THEN 0 ELSE First(sig.cp)
        cphit == cpfirst # 0
                 /\ ~(COMPILE_PATTERNS[cpfirst].cluster = "c_warning_unused_variable"
                      /\ full /\ ~(ratio.n.w * 100 = 99 * ratio.d))
    IN  IF sig.rt # {} THEN AnalysisResult(RUNTIME_PATTERNS[First(sig.rt)])
        ELSE IF cphit THEN AnalysisResult(COMPILE_PATTERNS[cpfirst])
        ELSE IF sig.failed /\ sig.cues # {}
             THEN AnalysisResult(FAILED_TEST_CUES[First(sig.cues)])
        ELSE IF ~full
             THEN IF sig.feats.uses_free /\ ~sig.feats.null_check_after_malloc
                     /\ sig.feats.uses_malloc
                  THEN [cluster_key |-> "c_memory_malloc_no_null_check",
                        hint_type |-> "memory", confidence |-> 62]
                  ELSE IF sig.feats.has_for_loop /\ sig.feats.uses_array_index
                  THEN [cluster_key |-> "c_logic_loop_bounds_generic",
                        hint_type |-> "logic_loop", confidence |-> 58]
                  ELSE [cluster_key |-> "c_logic_generic_failed_tests",
                        hint_type |-> "logic_generic", confidence |-> 45]
        ELSE [cluster_key |-> "c_no_hint_needed", hint_type |-> "none",
              confidence |-> 20]

\* (mutant) the structural fallback without its score_ratio < 0.99 test
analyze_fallback_always(req) ==
    LET sig == req.sig
        ratio == _safe_ratio(req.score, req.max_score)
        full == RatioAtLeast(ratio.n, ratio.d, 99, 100)
        \* the loop over COMPILE_PATTERNS: the first match returns, unless it
        \* is the unused-variable warning at full score, which breaks
        cpfirst == IF sig.cp = {} THEN 0 ELSE First(sig.cp)
        cphit == cpfirst # 0
                 /\ ~(COMPILE_PATTERNS[cpfirst].cluster = "c_warning_unused_variable"
                      /\ full)
    IN  IF sig.rt # {} THEN AnalysisResult(RUNTIME_PATTERNS[First(sig.rt)])
        ELSE IF cphit THEN AnalysisResult(COMPILE_PATTERNS[cpfirst])
        ELSE IF sig.failed /\ sig.cues # {}
             THEN AnalysisResult(FAILED_TEST_CUES[First(sig.cues)])
        ELSE IF TRUE
             THEN IF sig.feats.uses_free /\ ~sig.feats.null_check_after_malloc
                     /\ sig.feats.uses_malloc
                  THEN [cluster_key |-> "c_memory_malloc_no_null_check",
                        hint_type |-> "memory", confidence |-> 62]
                  ELSE IF sig.feats.has_for_loop /\ sig.feats.uses_array_index
                  THEN [cluster_key |-> "c_logic_loop_bounds_generic",
                        hint_type |-> "logic_loop", confidence |-> 58]
                  ELSE [cluster_key |-> "c_logic_generic_failed_tests",
                        hint_type |-> "logic_generic", confidence |-> 45]
        ELSE [cluster_key |-> "c_no_hint_needed", hint_type |-> "none",
              confidence |-> 20]

\* CAdapter.analyze over the signals of the request
analyze(req) ==
    LET sig == req.sig
        ratio == _safe_ratio(req.score, req.max_score)
        full == RatioAtLeast(ratio.n, ratio.d, 99, 100)
        \* the loop over COMPILE_PATTERNS: the first match returns, unless it
        \* is the unused-variable warning at full score, which breaks
        cpfirst == IF sig.cp = {} THEN 0 ELSE First(sig.cp)
        cphit == cpfirst # 0
                 /\ ~(COMPILE_PATTERNS[cpfirst].cluster = "c_warning_unused_variable"
                      /\ full)
    IN  IF sig.rt # {} THEN AnalysisResult(RUNTIME_PATTERNS[First(sig.rt)])
        ELSE IF cphit THEN AnalysisResult(COMPILE_PATTERNS[cpfirst])
        ELSE IF sig.failed /\ sig.cues # {}
             THEN AnalysisResult(FAILED_TEST_CUES[First(sig.cues)])
        ELSE IF ~full
             THEN IF sig.feats.uses_free /\ ~sig.feats.null_check_after_malloc
                     /\ sig.feats.uses_malloc
                  THEN [cluster_key |-> "c_memory_malloc_no_null_check",
                        hint_type |-> "memory", confidence |-> 62]
                  ELSE IF sig.feats.has_for_loop /\ sig.feats.uses_array_index
                  THEN [cluster_key |-> "c_logic_loop_bounds_generic",
                        hint_type |-> "logic_loop", confidence |-> 58]
                  ELSE [cluster_key |-> "c_logic_generic_failed_tests",
                        hint_type |-> "logic_generic", confidence |-> 45]
        ELSE [cluster_key |-> "c_no_hint_needed", hint_type |-> "none",
              confidence |-> 20]

\* ---- the texts of a request ----
\* A text field holds one of these phrases (lower-cased) or nothing, "".
Phrases == {"", "segmentation fault", "heap-use-after-free",
            "free(): invalid pointer", "null pointer", "undeclared",
            "conflicting types for", "warning: unused variable"}

\* the RUNTIME_PATTERNS whose regular expression finds a match in the phrase
RuntimeHits(phrase) ==
    CASE phrase = "segmentation fault"      -> {1}
      [] phrase = "heap-use-after-free"     -> {2}
      [] phrase = "free(): invalid pointer" -> {4}
      [] phrase = "null pointer"            -> {6}
      [] OTHER                              -> {}

\* the COMPILE_PATTERNS whose regular expression finds a match in the phrase
CompileHits(phrase) ==
    CASE phrase = "undeclared"               -> {1}
      [] phrase = "conflicting types for"    -> {2, 4}
      [] phrase = "free(): invalid pointer"  -> {7}
      [] phrase = "warning: unused variable" -> {8}
      [] OTHER                               -> {}

\* failed_tests as the set of the words in it, and the keyword list of each
FailedTests == {{}, {"wrong"}, {"empty"}, {"single", "output"}, {"last"}}
CueHits(word) ==
    CASE word = "empty"  -> {1}
      [] word = "single" -> {2}
      [] word = "output" -> {3}
      [] word = "last"   -> {4}
      [] OTHER           -> {}

\* source_code as the set of the fragments in it
SourceCodes == {{}, {"malloc(", "free("}, {"malloc(", "free(", "if (!p)"},
                {"for (", "[i]"}, {"malloc(", "free(", "for (", "[i]"}}

_extract_code_features(code) ==
    [uses_malloc |-> "malloc(" \in code, uses_free |-> "free(" \in code,
     null_check_after_malloc |-> "if (!p)" \in code,
     has_for_loop |-> "for (" \in code, uses_array_index |-> "[i]" \in code]

\* merged_runtime, merged_compile, failed_join and the code features of a
\* payload: what analyze reads of the request
Signals(p) ==
    [rt |-> RuntimeHits(p.runtime_error_text) \cup RuntimeHits(p.full_feedback_text),
     cp |-> CompileHits(p.compile_error_text) \cup CompileHits(p.full_feedback_text),
     failed |-> p.failed_tests # {},
     cues |-> UNION {CueHits(w) : w \in p.failed_tests},
     feats |-> _extract_code_features(p.source_code)]

(***************************** VariantSelector *****************************)
\* A catalog maps cluster keys to entries; an entry is
\*   [blank |-> whether it is the empty object, variants |-> <<v1, v2, ...>>]
\* with the variants in file order, each [name |-> ..., texts |-> [level |-> text]].
GENERIC_CLUSTER == "c_logic_generic_failed_tests"
EmptyEntry == [blank |-> TRUE, variants |-> <<>>]

\* (mutant) without the generic cluster: catalog.get(key) or {}
EntryOrGeneric_own(catalog, cluster_key) ==
    IF cluster_key \in DOMAIN catalog /\ ~catalog[cluster_key].blank
    THEN catalog[cluster_key]
    ELSE EmptyEntry

\* catalog.get(key) or catalog.get(generic) or {}
EntryOrGeneric(catalog, cluster_key) ==
    IF cluster_key \in DOMAIN catalog /\ ~catalog[cluster_key].blank
    THEN catalog[cluster_key]
    ELSE IF GENERIC_CLUSTER \in DOMAIN catalog /\ ~catalog[GENERIC_CLUSTER].blank
    THEN catalog[GENERIC_CLUSTER]
    ELSE EmptyEntry

\* list((entry.get('variants') or {}).keys()) or ['default']
VariantNames(entry) ==
    IF entry.variants = <<>> THEN <<"default">>
    ELSE [i \in 1..Len(entry.variants) |-> entry.variants[i].name]

\* (mutant) the comparison of a sort without reverse=True
ScoreGreater_ascending(a, b) ==
    LET ma == Max(1, a.exposures)
        mb == Max(1, b.exposures)
        na == 20 * ma * (a.improvements + 1) + a.total_delta.w * (a.exposures + 2)
        nb == 20 * mb * (b.improvements + 1) + b.total_delta.w * (b.exposures + 2)
        da == 20 * ma * (a.exposures + 2)
        db == 20 * mb * (b.exposures + 2)
    IN  \/ na * db < nb * da
        \/ na * db = nb * da /\ a.total_delta.t * mb < b.total_delta.t * ma

\* score_by_variant[a] > score_by_variant[b] for the rows a, b, where the score
\* is (imp + 1) / (exp + 2) + 0.05 * total_delta / max(1, exp): the whole parts
\* decide, and the quanta only between equal whole parts.
ScoreGreater(a, b) ==
    LET ma == Max(1, a.exposures)
        mb == Max(1, b.exposures)
        na == 20 * ma * (a.improvements + 1) + a.total_delta.w * (a.exposures + 2)
        nb == 20 * mb * (b.improvements + 1) + b.total_delta.w * (b.exposures + 2)
        da == 20 * ma * (a.exposures + 2)
        db == 20 * mb * (b.exposures + 2)
    IN  \/ na * db > nb * da
        \/ na * db = nb * da /\ a.total_delta.t * mb > b.total_delta.t * ma

\* (mutant) without the preference for unseen variants: a variant without a
\* row is sorted with the score 0.0 of score_by_variant.get(v, 0.0)
_choose_variant_sorted(stats, language, cluster_key, hint_level, catalog, explore) ==
    LET variants == VariantNames(EntryOrGeneric(catalog, cluster_key))
        idx == 1..Len(variants)
        rows == get_hint_stats(stats, language, cluster_key, hint_level)
        rowof(i) == IF \E r \in rows : r.hint_variant = variants[i]
                    THEN CHOOSE r \in rows : r.hint_variant = variants[i]
                    ELSE [exposures |-> 0, improvements |-> -1, total_delta |-> Zero]
        best == First({i \in idx : \A j \in idx : ~ScoreGreater(rowof(j), rowof(i))})
    IN  IF Len(variants) = 1 THEN {variants[1]}
        ELSE IF explore THEN {variants[i] : i \in idx}
        ELSE {variants[best]}

\* The values _choose_variant can return: explore is the draw
\* random.random() < epsilon, and random.choice can return any element.
_choose_variant(stats, language, cluster_key, hint_level, catalog, explore) ==
    LET variants == VariantNames(EntryOrGeneric(catalog, cluster_key))
        idx == 1..Len(variants)
        rows == get_hint_stats(stats, language, cluster_key, hint_level)
        seen == {r.hint_variant : r \in rows}
        unseen == {i \in idx : variants[i] \notin seen}
        rowof(i) == CHOOSE r \in rows : r.hint_variant = variants[i]
        best == First({i \in idx : \A j \in idx : ~ScoreGreater(rowof(j), rowof(i))})
    IN  IF Len(variants) = 1 THEN {variants[1]}
        ELSE IF explore THEN {variants[i] : i \in idx}
        ELSE IF unseen # {} THEN {variants[i] : i \in unseen}
        ELSE {variants[best]}

(***************************** HintTextResolver ****************************)
\* the hardcoded literal ('Controlla il primo test che fallisce ...')
LITERAL == "Controlla il primo test che fallisce"

\* chosen.get(str(level)): None and '' are both falsy, '' here
TextAt(chosen, level) ==
    IF level \in DOMAIN chosen.texts THEN chosen.texts[level] ELSE ""

\* (mutant) the fallback loop over the levels upwards: range(hint_level, 4)
_resolve_hint_text_upward(catalog, cluster_key, hint_level, hint_variant) ==
    LET entry == IF cluster_key \in DOMAIN catalog THEN catalog[cluster_key]
                 ELSE IF GENERIC_CLUSTER \in DOMAIN catalog
                 THEN catalog[GENERIC_CLUSTER]
                 ELSE EmptyEntry
        variants == entry.variants
        named == {i \in 1..Len(variants) : variants[i].name = hint_variant}
        chosen == IF named # {} /\ DOMAIN variants[First(named)].texts # {}
                  THEN <<variants[First(named)]>>
                  ELSE IF variants # <<>> THEN <<variants[1]>> ELSE <<>>
        upper == {l \in hint_level..3 : TextAt(chosen[1], l) # ""}
    IN  IF chosen = <<>> \/ DOMAIN chosen[1].texts = {} THEN LITERAL
        ELSE IF TextAt(chosen[1], hint_level) # "" THEN TextAt(chosen[1], hint_level)
        ELSE IF upper # {} THEN TextAt(chosen[1], First(upper))
        ELSE LITERAL

\* A variant object is falsy when it has no level at all ({}).
_resolve_hint_text(catalog, cluster_key, hint_level, hint_variant) ==
    LET \* catalog.get(cluster_key, catalog.get(generic, {}))
        entry == IF cluster_key \in DOMAIN catalog THEN catalog[cluster_key]
                 ELSE IF GENERIC_CLUSTER \in DOMAIN catalog
                 THEN catalog[GENERIC_CLUSTER]
                 ELSE EmptyEntry
        variants == entry.variants
        named == {i \in 1..Len(variants) : variants[i].name = hint_variant}
        \* variants.get(hint_variant) or next(iter(variants.values()))
        chosen == IF named # {} /\ DOMAIN variants[First(named)].texts # {}
                  THEN <<variants[First(named)]>>
                  ELSE IF variants # <<>> THEN <<variants[1]>> ELSE <<>>
        lower == {l \in 1..hint_level : TextAt(chosen[1], l) # ""}
    IN  IF chosen = <<>> \/ DOMAIN chosen[1].texts = {} THEN LITERAL
        ELSE IF TextAt(chosen[1], hint_level) # "" THEN TextAt(chosen[1], hint_level)
        ELSE IF lower # {}
             THEN TextAt(chosen[1], CHOOSE l \in lower : \A m \in lower : m <= l)
        ELSE LITERAL

(******************************* the engine ********************************)
VARIABLES
    attempts,      \* table attempts
    hint_stats,    \* table hint_stats
    catalog,       \* the catalog of language c, as _load_catalog caches it
    pc,            \* per thread: where its handle_hint call stands
    req,           \* per thread: the HintRequest being handled
    previous,      \* per thread: the row get_last_attempt_for_context returned
    loc,           \* per thread: the locals of handle_hint
    resp,          \* per thread: the last HintResponse returned
    nreq,          \* requests accepted so far
    issued,        \* history: per key, the sums of the bump_hint_stats calls made
    fbWrites,      \* history: per attempt id, the update_attempt_improvement calls
    fin,           \* the argument of a function applied on its own
    fout           \* its result, <<>> before the call

vars == <<attempts, hint_stats, catalog, pc, req, previous, loc, resp, nreq,
          issued, fbWrites, fin, fout>>

\* ---- the inputs the model draws ----
Modes == {"training", "exam"}
Languages == {"c", "C", "python"}
Lower(language) == IF language = "C" THEN "c" ELSE language

NoFeats == [uses_malloc |-> FALSE, uses_free |-> FALSE,
            null_check_after_malloc |-> FALSE, has_for_loop |-> FALSE,
            uses_array_index |-> FALSE]
\* a segmentation fault in the runtime text; nothing recognisable at all
SigSegv == [rt |-> {1}, cp |-> {}, failed |-> FALSE, cues |-> {}, feats |-> NoFeats]
SigNone == [rt |-> {}, cp |-> {}, failed |-> FALSE, cues |-> {}, feats |-> NoFeats]

\* (score, max_score) of the requests: nothing or full marks in the
\* concurrent specification,
ConcScores == {<<Sc(0, 0), 1>>, <<Sc(1, 0), 1>>}
\* with a gain of 5e-10 (below the tolerance) besides in the serial one,
EngineScores == ConcScores \cup {<<Sc(0, 1), 1>>}
\* and in the one-context specification out of 10 points nothing, 5e-10,
\* 2e-9, 4, 7 and 10 points, and 10 points with a max_score of 0
OneScores == {<<Sc(0, 0), 10>>, <<Sc(0, 1), 10>>, <<Sc(0, 4), 10>>, <<Sc(4, 0), 10>>,
              <<Sc(7, 0), 10>>, <<Sc(10, 0), 10>>, <<Sc(10, 0), 0>>}

Texts(l1, l2, l3) == [l \in {1, 2, 3} |-> CASE l = 1 -> l1 [] l = 2 -> l2 [] OTHER -> l3]
CatalogEmpty == [k \in {} |-> EmptyEntry]
CatalogTwo ==
    [k \in {"c_segfault", GENERIC_CLUSTER} |->
        IF k = "c_segfault"
        THEN [blank |-> FALSE,
              variants |-> << [name |-> "default", texts |-> Texts("s1", "s2", "s3")],
                              [name |-> "socratic", texts |-> Texts("q1", "q2", "q3")] >>]
        ELSE [blank |-> FALSE,
              variants |-> << [name |-> "default", texts |-> Texts("g1", "g2", "g3")] >>]]
Catalogs == {CatalogTwo}

NoReq == [mode |-> "", language |-> "", ctx |-> "", score |-> Zero,
          max_score |-> 0, sig |-> SigNone]
NoLoc == [cluster_key |-> "", hint_type |-> "", confidence |-> 0,
          delta |-> Zero, improved |-> FALSE, learning |-> <<>>,
          hint_level |-> 0, hint_variant |-> ""]
NoResp == [enabled |-> FALSE, hint_level |-> 0, hint_type |-> "",
           cluster_key |-> "", confidence |-> 0, hint_variant |-> "",
           learning |-> <<>>]

EngineInit ==
    /\ attempts = <<>>
    /\ hint_stats = {}
    /\ catalog \in Catalogs
    /\ pc = [t \in Threads |-> "idle"]
    /\ req = [t \in Threads |-> NoReq]
    /\ previous = [t \in Threads |-> <<>>]
    /\ loc = [t \in Threads |-> NoLoc]
    /\ resp = [t \in Threads |-> NoResp]
    /\ nreq = 0
    /\ issued = <<>>
    /\ fbWrites = <<>>

Init == EngineInit /\ fin = <<>> /\ fout = <<>>

\* history of a bump_hint_stats call
Issue(iss, key, e, i, d) ==
    [k \in DOMAIN iss \cup {key} |->
        LET old == IF k \in DOMAIN iss THEN iss[k]
                   ELSE [exposures |-> 0, improvements |-> 0, total_delta |-> Zero]
        IN  IF k = key
            THEN [exposures |-> old.exposures + e,
                  improvements |-> old.improvements + i,
                  total_delta |-> ScoreAdd(old.total_delta, d)]
            ELSE old]

\* ---- handle_hint, one action per db call ----
\* A thread takes a request when it is idle and the run's budget allows it;
\* serial says that a request waits while another request of its context is
\* in flight.
\* The pool hands a request to its first idle thread.
Accepts(t, limit) ==
    /\ pc[t] = "idle"
    /\ nreq < limit
    /\ \A u \in Threads : u < t => pc[u] # "idle"

Overlaps(t, ctx) == \E u \in Threads \ {t} : pc[u] # "idle" /\ req[u].ctx = ctx

Returns(t, response) ==
    /\ resp' = [resp EXCEPT ![t] = response]
    /\ pc' = [pc EXCEPT ![t] = "idle"]
    /\ req' = [req EXCEPT ![t] = NoReq]
    /\ previous' = [previous EXCEPT ![t] = <<>>]
    /\ loc' = [loc EXCEPT ![t] = NoLoc]

\* (mutant) the exam return counted as an exposure of the default hint
ExamRequest_counted(t, limit) ==
    /\ Accepts(t, limit)
    /\ \E mode \in Modes \ {"training"} :
          Returns(t, [NoResp EXCEPT !.hint_level = 1, !.hint_type = "generic",
                                    !.cluster_key = "c_generic",
                                    !.hint_variant = "default"])
    /\ hint_stats' = bump_hint_stats(hint_stats,
                          StatKey("c", "c_generic", 1, "default"), 1, 0, Zero)
    /\ nreq' = nreq + 1
    /\ UNCHANGED <<fin, fout, attempts, catalog, issued, fbWrites>>

\* mode != 'training': hints disabled
ExamRequest(t, limit) ==
    /\ Accepts(t, limit)
    /\ \E mode \in Modes \ {"training"} :
          Returns(t, [NoResp EXCEPT !.hint_level = 1, !.hint_type = "generic",
                                    !.cluster_key = "c_generic",
                                    !.hint_variant = "default"])
    /\ nreq' = nreq + 1
    /\ UNCHANGED <<fin, fout, attempts, hint_stats, catalog, issued, fbWrites>>

\* training, language != 'c': the fixed generic hint
UnsupportedLanguage(t, limit) ==
    /\ Accepts(t, limit)
    /\ \E language \in Languages :
          /\ Lower(language) # "c"
          /\ Returns(t, [enabled |-> TRUE, hint_level |-> 1, hint_type |-> "generic",
                         cluster_key |-> Lower(language) \o "_unsupported_mvp",
                         confidence |-> 25,
                         hint_variant |-> "default", learning |-> <<>>])
    /\ nreq' = nreq + 1
    /\ UNCHANGED <<fin, fout, attempts, hint_stats, catalog, issued, fbWrites>>

\* training, language c: analyze, then db.get_last_attempt_for_context
Fetch(t, limit, serial, ctxs, scores, sigs) ==
    /\ Accepts(t, limit)
    /\ \E language \in Languages, ctx \in ctxs, sm \in scores, sig \in sigs :
          LET r == [mode |-> "training", language |-> Lower(language), ctx |-> ctx,
                    score |-> sm[1], max_score |-> sm[2], sig |-> sig]
              analysis == analyze(r)
              prev == get_last_attempt_for_context(attempts, ctx, r.language)
              eligible == prev # <<>> /\ prev[1].hint_variant # ""
                          /\ prev[1].hint_level # 0
          IN  /\ r.language = "c"
              /\ serial => ~Overlaps(t, ctx)
              /\ req' = [req EXCEPT ![t] = r]
              /\ previous' = [previous EXCEPT ![t] = prev]
              /\ loc' = [loc EXCEPT ![t] =
                            [NoLoc EXCEPT !.cluster_key = analysis.cluster_key,
                                          !.hint_type = analysis.hint_type,
                                          !.confidence = analysis.confidence]]
              /\ pc' = [pc EXCEPT ![t] = IF eligible THEN "update" ELSE "choose"]
    /\ nreq' = nreq + 1
    /\ UNCHANGED <<fin, fout, attempts, hint_stats, catalog, resp, issued, fbWrites>>

\* (mutant) improved = delta > 0, without the tolerance
UpdateImprovement_positive(t) ==
    /\ pc[t] = "update"
    /\ LET prev == previous[t][1]
           delta == ScoreSub(req[t].score, prev.score)
           improved == Positive(delta)
       IN  /\ attempts' = update_attempt_improvement(attempts, prev.id, improved, delta)
           /\ fbWrites' = [fbWrites EXCEPT ![prev.id] = @ + 1]
           /\ loc' = [loc EXCEPT ![t].delta = delta, ![t].improved = improved]
    /\ pc' = [pc EXCEPT ![t] = "bump_fb"]
    /\ UNCHANGED <<fin, fout, hint_stats, catalog, req, previous, resp, nreq, issued>>

\* delta, improved, then db.update_attempt_improvement
UpdateImprovement(t) ==
    /\ pc[t] = "update"
    /\ LET prev == previous[t][1]
           delta == ScoreSub(req[t].score, prev.score)
           improved == AboveTolerance(delta)
       IN  /\ attempts' = update_attempt_improvement(attempts, prev.id, improved, delta)
           /\ fbWrites' = [fbWrites EXCEPT ![prev.id] = @ + 1]
           /\ loc' = [loc EXCEPT ![t].delta = delta, ![t].improved = improved]
    /\ pc' = [pc EXCEPT ![t] = "bump_fb"]
    /\ UNCHANGED <<fin, fout, hint_stats, catalog, req, previous, resp, nreq, issued>>

\* (mutant) the feedback bump called with exposure_inc=1
BumpFeedback_exposure(t) ==
    /\ pc[t] = "bump_fb"
    /\ LET prev == previous[t][1]
           key == StatKey(prev.language,
                          IF prev.cluster_key = "" THEN "unknown" ELSE prev.cluster_key,
                          IF prev.hint_level = 0 THEN 1 ELSE prev.hint_level,
                          IF prev.hint_variant = "" THEN "default" ELSE prev.hint_variant)
           inc == IF loc[t].improved THEN 1 ELSE 0
       IN  /\ hint_stats' = bump_hint_stats(hint_stats, key, 1, inc, loc[t].delta)
           /\ issued' = Issue(issued, key, 1, inc, loc[t].delta)
           /\ loc' = [loc EXCEPT ![t].learning =
                        << [previous_hint_improved_score |-> loc[t].improved,
                            previous_delta_score |-> Round4(loc[t].delta)] >>]
    /\ pc' = [pc EXCEPT ![t] = "choose"]
    /\ UNCHANGED <<fin, fout, attempts, catalog, req, previous, resp, nreq, fbWrites>>

\* db.bump_hint_stats for the previous hint, then learning_info
BumpFeedback(t) ==
    /\ pc[t] = "bump_fb"
    /\ LET prev == previous[t][1]
           key == StatKey(prev.language,
                          IF prev.cluster_key = "" THEN "unknown" ELSE prev.cluster_key,
                          IF prev.hint_level = 0 THEN 1 ELSE prev.hint_level,
                          IF prev.hint_variant = "" THEN "default" ELSE prev.hint_variant)
           inc == IF loc[t].improved THEN 1 ELSE 0
       IN  /\ hint_stats' = bump_hint_stats(hint_stats, key, 0, inc, loc[t].delta)
           /\ issued' = Issue(issued, key, 0, inc, loc[t].delta)
           /\ loc' = [loc EXCEPT ![t].learning =
                        << [previous_hint_improved_score |-> loc[t].improved,
                            previous_delta_score |-> Round4(loc[t].delta)] >>]
    /\ pc' = [pc EXCEPT ![t] = "choose"]
    /\ UNCHANGED <<fin, fout, attempts, catalog, req, previous, resp, nreq, fbWrites>>

\* _decide_level, _load_catalog, _choose_variant (which may read hint_stats)
ChooseVariant(t) ==
    /\ pc[t] = "choose"
    /\ LET hint_level == _decide_level(previous[t])
       IN  \E explore \in BOOLEAN :
           \E v \in _choose_variant(hint_stats, req[t].language, loc[t].cluster_key,
                                    hint_level, catalog, explore) :
              loc' = [loc EXCEPT ![t].hint_level = hint_level, ![t].hint_variant = v]
    /\ pc' = [pc EXCEPT ![t] = "bump_exp"]
    /\ UNCHANGED <<fin, fout, attempts, hint_stats, catalog, req, previous, resp, nreq, issued,
                   fbWrites>>

\* (mutant) the exposure bump called with exposure_inc=0
BumpExposure_zero(t) ==
    /\ pc[t] = "bump_exp"
    /\ LET key == StatKey(req[t].language, loc[t].cluster_key, loc[t].hint_level,
                          loc[t].hint_variant)
       IN  /\ hint_stats' = bump_hint_stats(hint_stats, key, 0, 0, Zero)
           /\ issued' = Issue(issued, key, 0, 0, Zero)
    /\ pc' = [pc EXCEPT ![t] = "insert"]
    /\ UNCHANGED <<fin, fout, attempts, catalog, req, previous, loc, resp, nreq, fbWrites>>

\* db.bump_hint_stats: the exposure of the selected hint
BumpExposure(t) ==
    /\ pc[t] = "bump_exp"
    /\ LET key == StatKey(req[t].language, loc[t].cluster_key, loc[t].hint_level,
                          loc[t].hint_variant)
       IN  /\ hint_stats' = bump_hint_stats(hint_stats, key, 1, 0, Zero)
           /\ issued' = Issue(issued, key, 1, 0, Zero)
    /\ pc' = [pc EXCEPT ![t] = "insert"]
    /\ UNCHANGED <<fin, fout, attempts, catalog, req, previous, loc, resp, nreq, fbWrites>>

\* db.insert_attempt, then the response
InsertAttempt(t) ==
    /\ pc[t] = "insert"
    /\ attempts' = insert_attempt(attempts,
            [id |-> 0, mode |-> req[t].mode, language |-> req[t].language,
             ctx |-> req[t].ctx, score |-> req[t].score,
             max_score |-> req[t].max_score, cluster_key |-> loc[t].cluster_key,
             hint_level |-> loc[t].hint_level, hint_type |-> loc[t].hint_type,
             hint_variant |-> loc[t].hint_variant, confidence |-> loc[t].confidence,
             improved_vs_previous |-> -1, delta_score |-> <<>>])
    /\ fbWrites' = Append(fbWrites, 0)
    /\ Returns(t, [enabled |-> TRUE, hint_level |-> loc[t].hint_level,
                   hint_type |-> loc[t].hint_type,
                   cluster_key |-> loc[t].cluster_key,
                   confidence |-> loc[t].confidence,
                   hint_variant |-> loc[t].hint_variant,
                   learning |-> loc[t].learning])
    /\ UNCHANGED <<fin, fout, hint_stats, catalog, nreq, issued>>

Step(t) ==
    \/ UpdateImprovement(t)
    \/ BumpFeedback(t)
    \/ ChooseVariant(t)
    \/ BumpExposure(t)
    \/ InsertAttempt(t)

\* Requests are handled concurrently on the thread pool.
Next ==
    \E t \in Threads :
        \/ ExamRequest(t, MaxRequests)
        \/ UnsupportedLanguage(t, MaxRequests)
        \/ Fetch(t, MaxRequests, FALSE, Contexts, ConcScores, {SigSegv})
        \/ Step(t)

Spec == Init /\ [][Next]_vars

\* The same engine when no two requests of one context overlap (requests of
\* different contexts still interleave).
NextSeq ==
    \E t \in Threads :
        \/ ExamRequest(t, MaxSeqRequests)
        \/ UnsupportedLanguage(t, MaxSeqRequests)
        \/ Fetch(t, MaxSeqRequests, TRUE, Contexts, EngineScores, {SigNone})
        \/ Step(t)

SpecSeq == Init /\ [][NextSeq]_vars

\* One context, its requests handled one after another by one thread.
NextOne ==
    \/ ExamRequest(1, MaxOneRequests)
    \/ UnsupportedLanguage(1, MaxOneRequests)
    \/ Fetch(1, MaxOneRequests, TRUE, {"k1"}, OneScores, {SigNone})
    \/ Step(1)

SpecOne == Init /\ [][NextOne]_vars

(************ the engine over a store file left by an earlier run ************)
\* init_db is CREATE TABLE IF NOT EXISTS over a file that outlives the
\* process, and the attempts columns hint_level and hint_variant are nullable:
\* the store may hold a row of a context with either of them NULL, which no
\* request of this engine writes.
MaxLegacyRequests == 3

LegacyRows ==
    {[id |-> 1, mode |-> "training", language |-> "c", ctx |-> "k1",
      score |-> Zero, max_score |-> 1, cluster_key |-> GENERIC_CLUSTER,
      hint_level |-> lv[1], hint_type |-> "logic_generic", hint_variant |-> lv[2],
      confidence |-> 45, improved_vs_previous |-> -1, delta_score |-> <<>>] :
        lv \in {<<0, "">>, <<0, "default">>, <<2, "">>}}

InitLegacy ==
    /\ attempts \in {<<>>} \cup {<<r>> : r \in LegacyRows}
    /\ fbWrites = [i \in 1..Len(attempts) |-> 0]
    /\ hint_stats = {}
    /\ catalog \in Catalogs
    /\ pc = [t \in Threads |-> "idle"]
    /\ req = [t \in Threads |-> NoReq]
    /\ previous = [t \in Threads |-> <<>>]
    /\ loc = [t \in Threads |-> NoLoc]
    /\ resp = [t \in Threads |-> NoResp]
    /\ nreq = 0
    /\ issued = <<>>
    /\ fin = <<>> /\ fout = <<>>

NextLegacy ==
    \/ ExamRequest(1, MaxLegacyRequests)
    \/ UnsupportedLanguage(1, MaxLegacyRequests)
    \/ Fetch(1, MaxLegacyRequests, TRUE, Contexts, EngineScores, {SigNone})
    \/ Step(1)

SpecLegacy == InitLegacy /\ [][NextLegacy]_vars

(********************* the level decision on its own ***********************)
\* _decide_level applied to None and to the rows an engine can have written:
\* hint_level in 1..3, score and max_score non-negative (0, 1, 2, 998, 999 and
\* 1000 points, with and without 5e-10 on top, out of 0, 1, 2 or 1000).
LevelRows ==
    {[score |-> Sc(w, t), max_score |-> m, hint_level |-> l] :
        w \in {0, 1, 2, 998, 999, 1000}, t \in {0, 1},
        m \in {0, 1, 2, 1000}, l \in {1, 2, 3}}
LevelInputs == {<<>>} \cup {<<row>> : row \in LevelRows}

InitLevel == EngineInit /\ fin \in LevelInputs /\ fout = <<>>

DecideLevel ==
    /\ fout = <<>>
    /\ fout' = <<_decide_level(fin)>>
    /\ UNCHANGED <<attempts, hint_stats, catalog, pc, req, previous, loc, resp,
                   nreq, issued, fbWrites, fin>>

SpecLevel == InitLevel /\ [][DecideLevel]_vars

(********************* the classifier on its own ***************************)
\* (score, max_score) of the payloads: ratios 0, 0.989999, 0.99, 1, above 1,
\* a negative score, and a max_score of 0 and below
AnalyzeScores == {<<Sc(0, 0), 100>>, <<Sc(989999, 0), 1000000>>, <<Sc(99, 0), 100>>,
                  <<Sc(100, 0), 100>>, <<Sc(150, 0), 100>>, <<Sc(-1, 0), 100>>,
                  <<Sc(10, 0), 0>>, <<Sc(10, 0), -1>>}

Payloads ==
    [compile_error_text : Phrases, runtime_error_text : Phrases,
     full_feedback_text : Phrases, failed_tests : FailedTests,
     source_code : SourceCodes, score : {sm[1] : sm \in AnalyzeScores},
     max_score : {sm[2] : sm \in AnalyzeScores}]

InitAnalyze ==
    /\ EngineInit
    /\ fin \in {p \in Payloads : <<p.score, p.max_score>> \in AnalyzeScores}
    /\ fout = <<>>

Analyze ==
    /\ fout = <<>>
    /\ fout' = <<analyze([score |-> fin.score, max_score |-> fin.max_score,
                          sig |-> Signals(fin)])>>
    /\ UNCHANGED <<attempts, hint_stats, catalog, pc, req, previous, loc, resp,
                   nreq, issued, fbWrites, fin>>

SpecAnalyze == InitAnalyze /\ [][Analyze]_vars

(******************* the variant selector on its own ***********************)
\* Catalogs of language c: the entry of cluster c_segfault is absent, the
\* empty object, an object without variants, or has one or two variants; the
\* entry of the generic cluster is absent or has one or two variants.
Variant(name) == [name |-> name, texts |-> Texts(name, name, name)]
ClusterEntries ==
    {<<>>, <<EmptyEntry>>, <<[blank |-> FALSE, variants |-> <<>>]>>,
     <<[blank |-> FALSE, variants |-> <<Variant("socratic")>>]>>,
     <<[blank |-> FALSE, variants |-> <<Variant("default"), Variant("socratic")>>]>>}
GenericEntries ==
    {<<>>, <<[blank |-> FALSE, variants |-> <<Variant("worked")>>]>>,
     <<[blank |-> FALSE, variants |-> <<Variant("worked"), Variant("default")>>]>>}
CatalogOf(ce, ge) ==
    [k \in (IF ce = <<>> THEN {} ELSE {"c_segfault"})
              \cup (IF ge = <<>> THEN {} ELSE {GENERIC_CLUSTER}) |->
        IF k = "c_segfault" THEN ce[1] ELSE ge[1]]
VariantCatalogs == {CatalogOf(ce, ge) : ce \in ClusterEntries, ge \in GenericEntries}

\* hint_stats: per variant name no row or a row of (c, c_segfault, 2) with
\* these counters, and maybe a row of level 1, which the query leaves out
StatCounts == {<<10, 9, 9>>, <<10, 1, 1>>, <<1, 0, -4>>}
StatRow(name, level, c) ==
    [language |-> "c", cluster_key |-> "c_segfault", hint_level |-> level,
     hint_variant |-> name, exposures |-> c[1], improvements |-> c[2],
     total_delta |-> Sc(c[3], 0)]
VariantStats ==
    {UNION {a, b, c, d} :
        a \in {{}} \cup {{StatRow("default", 2, x)} : x \in StatCounts},
        b \in {{}} \cup {{StatRow("socratic", 2, x)} : x \in StatCounts},
        c \in {{}} \cup {{StatRow("worked", 2, x)} : x \in StatCounts},
        d \in {{}, {StatRow("socratic", 1, <<10, 9, 9>>)}}}

InitVariant ==
    /\ EngineInit
    /\ fin \in [catalog : VariantCatalogs, stats : VariantStats, explore : BOOLEAN]
    /\ fout = <<>>

\* _choose_variant('c', 'c_segfault', 2, catalog) over the rows of stats
ChooseOne ==
    /\ fout = <<>>
    /\ \E v \in _choose_variant(fin.stats, "c", "c_segfault", 2, fin.catalog,
                                fin.explore) :
          fout' = <<v>>
    /\ UNCHANGED <<attempts, hint_stats, catalog, pc, req, previous, loc, resp,
                   nreq, issued, fbWrites, fin>>

SpecVariant == InitVariant /\ [][ChooseOne]_vars

(********************* the text resolver on its own ************************)
\* The level texts of a variant: no level at all, one level, all three, or an
\* empty text at level 1 with a text at level 2.
LevelText(tag, l) == tag \o (CASE l = 1 -> "1" [] l = 2 -> "2" [] OTHER -> "3")
TextMaps(tag) ==
    {[l \in D |-> LevelText(tag, l)] : D \in {{}, {1}, {2}, {3}, {1, 2, 3}}}
        \cup {[l \in {1, 2} |-> IF l = 1 THEN "" ELSE LevelText(tag, 2)]}

\* The entry of c_segfault: absent, the empty object, without variants, with
\* the variant default, or with socratic before default.
ResolveEntries ==
    {<<>>, <<EmptyEntry>>, <<[blank |-> FALSE, variants |-> <<>>]>>}
        \cup {<< [blank |-> FALSE, variants |-> << [name |-> "default", texts |-> d] >>] >> :
                d \in TextMaps("d")}
        \cup {<< [blank |-> FALSE,
                  variants |-> << [name |-> "socratic", texts |-> q],
                                  [name |-> "default", texts |-> d] >>] >> :
                q \in TextMaps("q"), d \in TextMaps("d")}
ResolveGenerics ==
    {<<>>} \cup {<< [blank |-> FALSE,
                     variants |-> << [name |-> "default", texts |-> g] >>] >> :
                    g \in {[l \in {1, 2, 3} |-> LevelText("g", l)],
                           [l \in {} |-> ""]}}
ResolveCatalogs == {CatalogOf(ce, ge) : ce \in ResolveEntries, ge \in ResolveGenerics}

InitResolve ==
    /\ EngineInit
    /\ fin \in [catalog : ResolveCatalogs, hint_level : {1, 2, 3},
                hint_variant : {"default", "socratic", "worked"}]
    /\ fout = <<>>

ResolveText ==
    /\ fout = <<>>
    /\ fout' = <<_resolve_hint_text(fin.catalog, "c_segfault", fin.hint_level,
                                    fin.hint_variant)>>
    /\ UNCHANGED <<attempts, hint_stats, catalog, pc, req, previous, loc, resp,
                   nreq, issued, fbWrites, fin>>

SpecResolve == InitResolve /\ [][ResolveText]_vars

(************************ the score ratio on its own ***********************)
\* (score, max_score) with a max_score of 0 and below, and ratios of 1, 0.5,
\* 1.5, -0.5 and 0.99; the submission has nothing to classify or the
\* unused-variable warning; as a previous Attempt it has a level of 1 to 3.
RatioScores == {<<Sc(0, 0), 0>>, <<Sc(10, 0), 0>>, <<Sc(10, 0), -1>>,
                <<Sc(-10, 0), -10>>, <<Sc(10, 0), 10>>, <<Sc(5, 0), 10>>,
                <<Sc(15, 0), 10>>, <<Sc(-5, 0), 10>>, <<Sc(99, 0), 100>>}

InitRatio ==
    /\ EngineInit
    /\ fin \in [sm : RatioScores, compile_error_text : {"", "warning: unused variable"},
                hint_level : {1, 2, 3}]
    /\ fout = [ratio |-> <<>>, analysis |-> <<>>, level |-> <<>>]

\* CAdapter.analyze of a submission with these scores
RatioAnalyze ==
    /\ fout.analysis = <<>>
    /\ LET p == [compile_error_text |-> fin.compile_error_text,
                 runtime_error_text |-> "", full_feedback_text |-> "",
                 failed_tests |-> {}, source_code |-> {}]
       IN  fout' = [fout EXCEPT
                     !.ratio = <<_safe_ratio(fin.sm[1], fin.sm[2])>>,
                     !.analysis = <<analyze([score |-> fin.sm[1],
                                             max_score |-> fin.sm[2],
                                             sig |-> Signals(p)])>>]
    /\ UNCHANGED <<attempts, hint_stats, catalog, pc, req, previous, loc, resp,
                   nreq, issued, fbWrites, fin>>

\* HintEngine._decide_level after a previous Attempt with these scores
RatioLevel ==
    /\ fout.level = <<>>
    /\ fout' = [fout EXCEPT
                  !.level = <<_decide_level(<<[score |-> fin.sm[1],
                                               max_score |-> fin.sm[2],
                                               hint_level |-> fin.hint_level]>>)>>]
    /\ UNCHANGED <<attempts, hint_stats, catalog, pc, req, previous, loc, resp,
                   nreq, issued, fbWrites, fin>>

SpecRatio == InitRatio /\ [][RatioAnalyze \/ RatioLevel]_vars

(******************************** claims ***********************************)
AllIdle == \A t \in Threads : pc[t] = "idle"

\* C1: under any interleaving of concurrent requests no HintStat increment is
\* lost: once every request has finished, each key's row holds exactly the
\* number of exposure bumps issued for it, the number of feedback bumps issued
\* for it with improved = true and the sum of the deltas issued for it, and
\* there is no row for a key nothing was issued for.
C1_NoLostIncrement ==
    AllIdle =>
        /\ \A k \in DOMAIN issued :
              \E r \in hint_stats :
                  /\ RowKey(r) = k
                  /\ r.exposures = issued[k].exposures
                  /\ r.improvements = issued[k].improvements
                  /\ r.total_delta = issued[k].total_delta
        /\ \A r \in hint_stats : RowKey(r) \in DOMAIN issued

\* C1 witness: all requests have finished and one key has taken an exposure
\* bump from two requests and an improving feedback bump from a third call.
C1_Witness ==
    /\ AllIdle
    /\ \E r \in hint_stats :
          r.exposures >= 2 /\ r.improvements >= 1 /\ Positive(r.total_delta)

\* the attempt with id i is the newest of its context
Newest(atts, i) ==
    \A j \in 1..Len(atts) :
        (atts[j].ctx = atts[i].ctx /\ atts[j].language = atts[i].language) => j <= i

\* the attempts of a context, as ids in insertion order
IdsOf(ctx) == {i \in 1..Len(attempts) : attempts[i].ctx = ctx}
\* j is the attempt that follows i in i's context
Follows(i, j) ==
    /\ i < j
    /\ attempts[j].ctx = attempts[i].ctx
    /\ \A k \in IdsOf(attempts[i].ctx) : ~(i < k /\ k < j)

\* C2: with the requests of a context handled one at a time, a step changes a
\* persisted Attempt only by setting its feedback fields; they are NULL
\* before it (so they are set at most once), the Attempt is then the newest of
\* its context, and the step is the feedback write of a request of that
\* context holding it as previous (the immediately next request).
C2_FeedbackSetOnceByNext ==
    /\ [][\A i \in 1..Len(attempts) :
          attempts'[i] # attempts[i] =>
              /\ attempts[i].improved_vs_previous = -1
              /\ attempts[i].delta_score = <<>>
              /\ attempts'[i] = [attempts[i] EXCEPT
                                    !.improved_vs_previous = attempts'[i].improved_vs_previous,
                                    !.delta_score = attempts'[i].delta_score]
              /\ Newest(attempts, i)
              /\ fbWrites[i] = 0
              /\ \E t \in Threads :
                    /\ pc[t] = "update" /\ pc'[t] = "bump_fb"
                    /\ req[t].ctx = attempts[i].ctx
                    /\ previous[t][1].id = i]_vars
    /\ [](\A i \in 1..Len(attempts) : fbWrites[i] <= 1)

\* C2 witness: three Attempts of one context in a row; the first two have
\* their feedback fields set, each written once.
C2_Witness ==
    \E i, j, k \in 1..Len(attempts) :
        /\ Follows(i, j) /\ Follows(j, k)
        /\ attempts[i].improved_vs_previous # -1 /\ fbWrites[i] = 1
        /\ attempts[j].improved_vs_previous # -1 /\ fbWrites[j] = 1

\* the row of hint_stats for a key, as seen by a reader: zeros when absent
StatOf(stats, key) ==
    IF \E r \in stats : RowKey(r) = key
    THEN CHOOSE r \in stats : RowKey(r) = key
    ELSE [language |-> key.language, cluster_key |-> key.cluster_key,
          hint_level |-> key.hint_level, hint_variant |-> key.hint_variant,
          exposures |-> 0, improvements |-> 0, total_delta |-> Zero]

InFlight(t) == pc[t] # "idle"

\* u's previous Attempt is still what a fetch for its context returns
StillNewest(u) ==
    IF previous[u] = <<>> THEN IdsOf(req[u].ctx) = {}
    ELSE Newest(attempts, previous[u][1].id)

\* C3: a request that fetches while another request of its context is in
\* flight, with no Attempt of the context inserted since that one fetched,
\* reads the same previous Attempt; and nothing stops either of them: each
\* one's feedback write lands on that Attempt (also when it had been written
\* before) and each one's feedback bump is added to the Attempt's HintStat key.
C3_BothAttributeFeedback ==
    /\ [][\A t, u \in Threads :
            (/\ t # u /\ pc[t] = "idle" /\ InFlight(u) /\ StillNewest(u)
             /\ pc'[t] \in {"update", "choose"} /\ req'[t].ctx = req[u].ctx) =>
                /\ previous'[t] = <<>> <=> previous[u] = <<>>
                /\ previous[u] # <<>> => previous'[t][1].id = previous[u][1].id
                /\ previous[u] # <<>> => pc'[t] = "update"]_vars
    /\ [][\A t \in Threads :
            (pc[t] = "update" /\ pc'[t] = "bump_fb") =>
                LET id == previous[t][1].id
                    delta == ScoreSub(req[t].score, previous[t][1].score)
                IN  /\ attempts'[id].delta_score = <<delta>>
                    /\ attempts'[id].improved_vs_previous =
                           (IF AboveTolerance(delta) THEN 1 ELSE 0)
                    /\ fbWrites'[id] = fbWrites[id] + 1]_vars
    /\ [][\A t \in Threads :
            (pc[t] = "bump_fb" /\ pc'[t] = "choose") =>
                LET key == RowKey(previous[t][1])
                    old == StatOf(hint_stats, key)
                    new == StatOf(hint_stats', key)
                IN  /\ new.improvements =
                           old.improvements + (IF loc[t].improved THEN 1 ELSE 0)
                    /\ new.total_delta = ScoreAdd(old.total_delta, loc[t].delta)
                    /\ new.exposures = old.exposures]_vars

\* C3 witness: one Attempt's feedback fields have been written twice and its
\* key holds two improvements for the single exposure.
C3_Witness ==
    \E i \in 1..Len(attempts) :
        /\ fbWrites[i] = 2
        /\ StatOf(hint_stats, RowKey(attempts[i])).exposures = 1
        /\ StatOf(hint_stats, RowKey(attempts[i])).improvements = 2

\* C4: hint_stats holds exactly one row per key tuple in every reachable
\* state, and no step deletes a row or lowers the exposures or the
\* improvements of a key (total_delta is free to fall).
C4_OneRowPerKeyMonotone ==
    /\ [](\A r1, r2 \in hint_stats : RowKey(r1) = RowKey(r2) => r1 = r2)
    /\ [][\A r \in hint_stats :
            \E r2 \in hint_stats' :
                /\ RowKey(r2) = RowKey(r)
                /\ r2.exposures >= r.exposures
                /\ r2.improvements >= r.improvements]_vars

\* C4 witness: several keys, one of them bumped more than once and holding a
\* negative total_delta.
C4_Witness ==
    /\ Cardinality(hint_stats) >= 2
    /\ \E r \in hint_stats :
          r.exposures >= 1 /\ r.improvements = 0 /\ r.total_delta.w < 0

\* score / max_score >= 0.999 as the claims mean it: a quotient exists only
\* for a max_score above 0, and 5e-10 on top of a score can only raise it
MasteryRow(row) ==
    /\ row.max_score > 0
    /\ 1000 * row.score.w >= 999 * row.max_score

\* C5: the level decided is 1 without a previous Attempt, 1 after a previous
\* Attempt with score / max_score >= 0.999 whatever its level, and otherwise
\* the previous level plus one capped at 3 (1 -> 2, 2 -> 3, 3 -> 3); it is
\* always one of 1, 2, 3.
C5_LevelDecision ==
    fout # <<>> =>
        /\ fout[1] \in {1, 2, 3}
        /\ fin = <<>> => fout[1] = 1
        /\ (fin # <<>> /\ MasteryRow(fin[1])) => fout[1] = 1
        /\ (fin # <<>> /\ ~MasteryRow(fin[1])) =>
               fout[1] = (CASE fin[1].hint_level = 1 -> 2
                            [] fin[1].hint_level = 2 -> 3
                            [] fin[1].hint_level = 3 -> 3)

\* C5 witness: the level decided after a previous Attempt of level 3 with
\* half the points (3, not 4).
C5_Witness ==
    /\ fout = <<3>>
    /\ fin = <<[score |-> Sc(1, 0), max_score |-> 2, hint_level |-> 3]>>

\* C6: with the requests of a context handled one at a time, every persisted
\* hint_level is 1, 2 or 3, and from an Attempt to the next one of its context
\* the level does not fall, unless the earlier one had
\* score / max_score >= 0.999, and then the next level is 1.
C6_LevelsEscalate ==
    /\ \A i \in 1..Len(attempts) : attempts[i].hint_level \in {1, 2, 3}
    /\ \A i, j \in 1..Len(attempts) :
          Follows(i, j) =>
              IF MasteryRow(attempts[i])
              THEN attempts[j].hint_level = 1
              ELSE attempts[j].hint_level >= attempts[i].hint_level

\* C6 witness: a context whose levels went 1, 2, 3 and, after an Attempt
\* with full marks, back to 1.
C6_Witness ==
    \E i, j, k, l \in 1..Len(attempts) :
        /\ Follows(i, j) /\ Follows(j, k) /\ Follows(k, l)
        /\ attempts[i].hint_level = 1 /\ attempts[j].hint_level = 2
        /\ attempts[k].hint_level = 3 /\ MasteryRow(attempts[k])
        /\ attempts[l].hint_level = 1

\* the Attempts right before Attempt i that fall short of mastery, counted
\* back to the last one that reached it (the log holds one context here)
RECURSIVE ShortRun(_)
ShortRun(i) ==
    IF i = 1 \/ MasteryRow(attempts[i - 1]) THEN 0 ELSE 1 + ShortRun(i - 1)

\* C7: in one context handled sequentially the first request gets level 1,
\* the request after a mastery Attempt gets level 1 again, and in between the
\* level is 2 after one Attempt short of mastery and 3 after two or more (it
\* reaches 3 within two further requests and stays there).
C7_LevelStateMachine ==
    \A i \in 1..Len(attempts) :
        attempts[i].hint_level = Min(3, 1 + ShortRun(i))

\* C7 witness: the levels 1, 2, 3, 3 and, after mastery, 1 again.
C7_Witness ==
    /\ Len(attempts) = 5
    /\ [i \in 1..5 |-> attempts[i].hint_level] = <<1, 2, 3, 3, 1>>

RECURSIVE SumExposures(_)
SumExposures(rows) ==
    IF rows = {} THEN 0
    ELSE LET r == CHOOSE x \in rows : TRUE
         IN  r.exposures + SumExposures(rows \ {r})

\* the order of the steps of one request, as moves of its thread
StepOrder ==
    {<<"idle", "update">>, <<"idle", "choose">>, <<"update", "bump_fb">>,
     <<"bump_fb", "choose">>, <<"choose", "bump_exp">>, <<"bump_exp", "insert">>,
     <<"insert", "idle">>}

\* C8 as stated: the new Attempt is persisted before its exposure is bumped,
\* so the exposures never outnumber the persisted Attempts.
C8_Original == SumExposures(hint_stats) <= Len(attempts)

\* C8 amended: a request looks up its previous Attempt, records the feedback,
\* decides level and variant, bumps the exposure and only then persists the
\* new Attempt; the exposures equal the persisted Attempts plus the requests
\* standing between their exposure bump and their insert, so the persisted
\* Attempts never outnumber the exposures.
C8_ExposureBeforePersist ==
    /\ [](SumExposures(hint_stats)
            = Len(attempts) + Cardinality({t \in Threads : pc[t] = "insert"}))
    /\ [][\A t \in Threads :
            pc'[t] # pc[t] =>
                /\ <<pc[t], pc'[t]>> \in StepOrder
                /\ Len(attempts') # Len(attempts) <=> pc[t] = "insert"
                /\ SumExposures(hint_stats') # SumExposures(hint_stats)
                       <=> pc[t] = "bump_exp"]_vars

\* C8 witness: a request has bumped its exposure and not yet inserted its
\* Attempt, while Attempts of earlier requests are persisted.
C8_Witness ==
    /\ \E t \in Threads : pc[t] = "insert"
    /\ Len(attempts) >= 1
    /\ SumExposures(hint_stats) = Len(attempts) + 1

\* a previous Attempt carrying a hint_level and a hint_variant
Eligible(prev) ==
    prev # <<>> /\ prev[1].hint_variant # "" /\ prev[1].hint_level # 0

\* what a request that fetched an eligible previous Attempt goes through: the
\* feedback write, with the sign of the delta decided by sign(delta), and the
\* return, with the learning field built by shown(delta)
FeedbackRule(sign(_), shown(_)) ==
    \A t \in Threads :
        /\ (pc[t] = "idle" /\ pc'[t] \in {"update", "choose"}) =>
               (pc'[t] = "update" <=> Eligible(previous'[t]))
        /\ (pc[t] = "update" /\ pc'[t] = "bump_fb") =>
               LET p == previous[t][1]
                   delta == ScoreSub(req[t].score, p.score)
               IN  /\ attempts'[p.id].improved_vs_previous =
                          (IF sign(delta) THEN 1 ELSE 0)
                   /\ attempts'[p.id].delta_score = <<delta>>
        /\ (pc[t] = "insert" /\ pc'[t] = "idle") =>
               IF Eligible(previous[t])
               THEN LET p == previous[t][1]
                        delta == ScoreSub(req[t].score, p.score)
                    IN  /\ resp'[t].learning =
                               << [previous_hint_improved_score |-> sign(delta),
                                   previous_delta_score |-> shown(delta)] >>
                        /\ attempts[p.id].improved_vs_previous =
                               (IF sign(delta) THEN 1 ELSE 0)
                        /\ attempts[p.id].delta_score = <<delta>>
               ELSE resp'[t].learning = <<>>

Same(d) == d
\* d > 1e-9 for d = w + t * 5e-10, and d rounded to 4 decimals
OverOneNano(d) == d.w >= 1 \/ (d.w = 0 /\ d.t >= 3)
FourDecimals(d) == [w |-> d.w, t |-> 0]

\* C9 as stated: improved iff delta > 0 strictly, and the delta written to
\* the previous Attempt is the one returned.
C9_Original == [][FeedbackRule(Positive, Same)]_vars

\* C9 amended: for a request that finds an eligible previous Attempt, delta =
\* current score - previous score and improved iff delta > 1e-9; both are
\* written to the previous Attempt, and the response carries improved and
\* delta rounded to 4 decimals; without an eligible previous Attempt the
\* response has no learning field.
C9_FeedbackSign == [][FeedbackRule(OverOneNano, FourDecimals)]_vars

\* C9 witness: the request after an Attempt with 4 of 10 points at level 1
\* scored 7: improved, delta 3.0, new level 2.
C9_Witness ==
    /\ Len(attempts) = 2
    /\ attempts[1].score = Sc(4, 0) /\ attempts[1].max_score = 10
    /\ attempts[1].hint_level = 1 /\ attempts[1].hint_variant = "default"
    /\ attempts[1].improved_vs_previous = 1
    /\ attempts[1].delta_score = <<Sc(3, 0)>>
    /\ attempts[2].score = Sc(7, 0) /\ attempts[2].hint_level = 2
    /\ resp[1].hint_level = 2
    /\ resp[1].learning = << [previous_hint_improved_score |-> TRUE,
                              previous_delta_score |-> Sc(3, 0)] >>

\* C10: the feedback step of a request that fetched an eligible previous
\* Attempt changes, of the Attempts, only the feedback fields of that Attempt,
\* and, of the HintStats, only the key of that Attempt: improvements grows by
\* 1 iff improved, total_delta grows by delta, the exposures of every key and
\* every other row stay as they were; a request that fetched no previous
\* Attempt, or one with a null hint_level or hint_variant, goes straight to
\* the level decision with no Attempt and no HintStat changed.
StatKeys(stats) == {RowKey(r) : r \in stats}

C10_FeedbackFrame ==
    [][\A t \in Threads :
        /\ (pc[t] = "idle" /\ pc'[t] # "idle") =>
               /\ attempts' = attempts /\ hint_stats' = hint_stats
               /\ ~Eligible(previous'[t]) => pc'[t] = "choose"
        /\ (pc[t] = "update" /\ pc'[t] = "bump_fb") =>
               LET p == previous[t][1]
               IN  /\ hint_stats' = hint_stats
                   /\ Len(attempts') = Len(attempts)
                   /\ \A i \in 1..Len(attempts) :
                          i # p.id => attempts'[i] = attempts[i]
                   /\ attempts'[p.id] =
                          [attempts[p.id] EXCEPT
                              !.improved_vs_previous = attempts'[p.id].improved_vs_previous,
                              !.delta_score = attempts'[p.id].delta_score]
        /\ (pc[t] = "bump_fb" /\ pc'[t] = "choose") =>
               LET p == previous[t][1]
                   key == RowKey(p)
                   delta == ScoreSub(req[t].score, p.score)
                   old == StatOf(hint_stats, key)
                   new == StatOf(hint_stats', key)
               IN  /\ attempts' = attempts
                   /\ new.improvements =
                          old.improvements + (IF loc[t].improved THEN 1 ELSE 0)
                   /\ new.total_delta = ScoreAdd(old.total_delta, delta)
                   /\ \A k \in StatKeys(hint_stats) \cup StatKeys(hint_stats') :
                          StatOf(hint_stats', k).exposures =
                              StatOf(hint_stats, k).exposures
                   /\ {r \in hint_stats' : RowKey(r) # key} =
                          {r \in hint_stats : RowKey(r) # key}
      ]_vars

\* C10 witness: the store began with a row of k1 without a hint level; the
\* first request of k1 fetched it and wrote no feedback; the next request of
\* k1 improved on that request's Attempt and credited its key, whose exposures
\* stayed at the one bump of its own request.
C10_Witness ==
    /\ AllIdle
    /\ Len(attempts) = 3
    /\ attempts[1].hint_level = 0 /\ attempts[1].improved_vs_previous = -1
    /\ attempts[1].delta_score = <<>>
    /\ attempts[2].ctx = "k1" /\ attempts[3].ctx = "k1"
    /\ attempts[2].improved_vs_previous = 1
    /\ attempts[2].delta_score = <<Sc(1, 0)>>
    /\ LET s == StatOf(hint_stats, RowKey(attempts[2]))
       IN  s.exposures = 1 /\ s.improvements = 1 /\ s.total_delta = Sc(1, 0)
    /\ Cardinality(hint_stats) = 2

\* C11: a request whose mode is not training returns enabled = false, and a
\* training request for a language other than c returns the fixed generic hint
\* (level 1, variant default, no learning field); either leaves the Attempts
\* and the HintStats as they were, classifies nothing, fetches no previous
\* Attempt, attributes no feedback and counts no exposure.
NothingDone(t) ==
    /\ attempts' = attempts /\ hint_stats' = hint_stats
    /\ fbWrites' = fbWrites /\ issued' = issued
    /\ pc'[t] = "idle" /\ loc'[t] = NoLoc /\ previous'[t] = <<>>

C11_ShortCircuits ==
    [][\A t \in Threads :
        /\ ExamRequest(t, MaxRequests) =>
               /\ resp'[t].enabled = FALSE /\ resp'[t].learning = <<>>
               /\ NothingDone(t)
        /\ UnsupportedLanguage(t, MaxRequests) =>
               /\ resp'[t] = [enabled |-> TRUE, hint_level |-> 1,
                              hint_type |-> "generic",
                              cluster_key |-> "python_unsupported_mvp",
                              confidence |-> 25, hint_variant |-> "default",
                              learning |-> <<>>]
               /\ NothingDone(t)
      ]_vars

\* C11 witness: with an Attempt and its exposure persisted, thread 2 has
\* answered a request for python and thread 1 an exam request.
C11_Witness ==
    /\ AllIdle
    /\ Len(attempts) = 1 /\ Cardinality(hint_stats) = 1
    /\ resp[1].enabled = FALSE
    /\ resp[2].enabled /\ resp[2].cluster_key = "python_unsupported_mvp"

\* ---- the classifier, stated over the texts of the payload ----
RuntimeMatched(p) ==
    {i \in 1..Len(RUNTIME_PATTERNS) :
        i \in RuntimeHits(p.runtime_error_text) \cup RuntimeHits(p.full_feedback_text)}
CompileMatched(p) ==
    {i \in 1..Len(COMPILE_PATTERNS) :
        i \in CompileHits(p.compile_error_text) \cup CompileHits(p.full_feedback_text)}
CuesMatched(p) ==
    {i \in 1..Len(FAILED_TEST_CUES) : \E w \in p.failed_tests : i \in CueHits(w)}
\* score / max_score >= 0.99, the ratio being 0 for a max_score <= 0
FullCredit(p) == p.max_score > 0 /\ p.score.w * 100 >= 99 * p.max_score
Analyzed == fout # <<>>

\* C12: whenever the runtime-error text plus the feedback text matches a
\* runtime-safety pattern, the classifier returns the cluster and confidence
\* of the first matching runtime pattern in declared order, whatever the
\* compile text, the failed tests, the code and the score are.
C12_RuntimePrecedence ==
    (Analyzed /\ RuntimeMatched(fin) # {}) =>
        LET first == CHOOSE i \in RuntimeMatched(fin) :
                        \A j \in RuntimeMatched(fin) : i <= j
        IN  /\ fout[1].cluster_key = RUNTIME_PATTERNS[first].cluster
            /\ fout[1].confidence = RUNTIME_PATTERNS[first].conf

\* C12 witness: heap-use-after-free in the runtime text with an undeclared
\* identifier in the compile text is c_use_after_free with confidence 0.98.
C12_Witness ==
    /\ Analyzed
    /\ fin.runtime_error_text = "heap-use-after-free"
    /\ fin.compile_error_text = "undeclared"
    /\ fout[1].cluster_key = "c_use_after_free" /\ fout[1].confidence = 98

\* the result of the steps after the compile loop: the first failed-test cue,
\* else by the score the terminal cluster or a structural fallback
IsWarning(r) == r.cluster_key = "c_warning_unused_variable" /\ r.confidence = 55
LaterSteps(p, r) ==
    IF CuesMatched(p) # {}
    THEN r.cluster_key = FAILED_TEST_CUES[CHOOSE i \in CuesMatched(p) :
                                \A j \in CuesMatched(p) : i <= j].cluster
    ELSE IF FullCredit(p) THEN r.cluster_key = "c_no_hint_needed"
    ELSE r.cluster_key \in {"c_memory_malloc_no_null_check",
                            "c_logic_loop_bounds_generic",
                            "c_logic_generic_failed_tests"}

\* C13: when no runtime pattern matches and the only compile pattern that
\* matches is the unused-variable warning, the classifier skips the warning
\* and goes on with the failed-test cues and the later steps iff
\* score/max_score >= 0.99; below 0.99 it returns c_warning_unused_variable
\* with confidence 0.55.
C13_WarningSuppression ==
    (Analyzed /\ RuntimeMatched(fin) = {} /\ CompileMatched(fin) = {8}) =>
        IF FullCredit(fin)
        THEN ~IsWarning(fout[1]) /\ LaterSteps(fin, fout[1])
        ELSE IsWarning(fout[1])

\* C13 witness: the warning alone at 99 of 100 points is skipped and the cue
\* of the failed tests decides.
C13_Witness ==
    /\ Analyzed
    /\ fin.compile_error_text = "warning: unused variable"
    /\ fin.runtime_error_text = "" /\ fin.full_feedback_text = ""
    /\ fin.score = Sc(99, 0) /\ fin.max_score = 100
    /\ fin.failed_tests = {"empty"}
    /\ fout[1].cluster_key = "c_logic_edge_case_empty"

\* the same payload at 989999 of 1000000 points gets the warning
C13_WitnessBelow ==
    /\ Analyzed
    /\ fin.compile_error_text = "warning: unused variable"
    /\ fin.runtime_error_text = "" /\ fin.full_feedback_text = ""
    /\ fin.score = Sc(989999, 0) /\ fin.max_score = 1000000
    /\ IsWarning(fout[1])

\* the fixed cluster set
Clusters ==
    {RUNTIME_PATTERNS[i].cluster : i \in 1..Len(RUNTIME_PATTERNS)}
        \cup {COMPILE_PATTERNS[i].cluster : i \in 1..Len(COMPILE_PATTERNS)}
        \cup {FAILED_TEST_CUES[i].cluster : i \in 1..Len(FAILED_TEST_CUES)}
        \cup {"c_memory_malloc_no_null_check", "c_logic_loop_bounds_generic",
              "c_logic_generic_failed_tests", "c_no_hint_needed"}
\* a runtime, compile or failed-test rule returned (the skipped warning did not)
RuleFired(p) ==
    \/ RuntimeMatched(p) # {}
    \/ CompileMatched(p) # {} /\ ~(CompileMatched(p) = {8} /\ FullCredit(p))
    \/ CuesMatched(p) # {}

\* C14: every payload is classified into exactly one cluster of the fixed set
\* (the classifier is a function of the payload); a structural-fallback
\* cluster is returned only when score/max_score < 0.99 and no runtime,
\* compile or failed-test rule fired, and c_no_hint_needed, with confidence
\* 0.2, iff score/max_score >= 0.99 and no rule fired.
C14_TotalClassification ==
    Analyzed =>
        /\ Len(fout) = 1
        /\ fout[1].cluster_key \in Clusters
        /\ fout[1].cluster_key \in {"c_memory_malloc_no_null_check",
                                    "c_logic_loop_bounds_generic",
                                    "c_logic_generic_failed_tests"}
               <=> (~FullCredit(fin) /\ ~RuleFired(fin))
        /\ fout[1].cluster_key = "c_no_hint_needed"
               <=> (FullCredit(fin) /\ ~RuleFired(fin))
        /\ fout[1].cluster_key = "c_no_hint_needed" => fout[1].confidence = 20

\* C14 witness: nothing matches and the marks are full: no hint is needed.
C14_Witness ==
    /\ Analyzed
    /\ ~RuleFired(fin) /\ fin.source_code = {"for (", "[i]"}
    /\ fin.score = Sc(100, 0) /\ fin.max_score = 100
    /\ fout[1].cluster_key = "c_no_hint_needed" /\ fout[1].confidence = 20

\* the same payload at no marks gets the loop-bounds fallback
C14_WitnessFallback ==
    /\ Analyzed
    /\ ~RuleFired(fin) /\ fin.source_code = {"for (", "[i]"}
    /\ fin.score = Sc(0, 0) /\ fin.max_score = 100
    /\ fout[1].cluster_key = "c_logic_loop_bounds_generic"

\* ---- the variant selector, stated over the catalog and the rows ----
Chosen == fout # <<>>
NamesOf(entry) == {entry.variants[i].name : i \in 1..Len(entry.variants)}
\* the entry of the cluster, or the generic cluster's when the cluster is absent
EntryIfPresent(c) ==
    IF "c_segfault" \in DOMAIN c THEN <<c["c_segfault"]>>
    ELSE IF GENERIC_CLUSTER \in DOMAIN c THEN <<c[GENERIC_CLUSTER]>>
    ELSE <<>>
\* the entry of the cluster when it has one that is not the empty object, else
\* the generic cluster's under the same condition
EntryIfNonEmpty(c) ==
    IF "c_segfault" \in DOMAIN c /\ c["c_segfault"] # EmptyEntry
    THEN <<c["c_segfault"]>>
    ELSE IF GENERIC_CLUSTER \in DOMAIN c /\ c[GENERIC_CLUSTER] # EmptyEntry
    THEN <<c[GENERIC_CLUSTER]>>
    ELSE <<>>

\* C15 as stated: the selected variant is always a variant name of the entry
\* used (the cluster's own, or the generic cluster's when the cluster is
\* absent), and the only variant of a one-variant entry is always returned.
C15_Original ==
    Chosen =>
        LET e == EntryIfPresent(fin.catalog)
        IN  /\ e # <<>> /\ fout[1] \in NamesOf(e[1])
            /\ Len(e[1].variants) = 1 => fout[1] = e[1].variants[1].name

\* C15 amended: the selected variant is a variant name of the entry used: the
\* cluster's own entry when the catalog has one that is not empty, else the
\* generic cluster's; it is "default" when there is no such entry or the
\* entry has no variants; the only variant of a one-variant entry is returned
\* whatever the exploration draw and the statistics.
C15_VariantOfEntry ==
    Chosen =>
        LET e == EntryIfNonEmpty(fin.catalog)
        IN  IF e = <<>> \/ e[1].variants = <<>> THEN fout[1] = "default"
            ELSE /\ fout[1] \in NamesOf(e[1])
                 /\ Len(e[1].variants) = 1 => fout[1] = e[1].variants[1].name

\* C15 witness: the cluster's entry has the one variant socratic, the draw
\* explores and default has the better statistics: socratic is returned.
C15_Witness ==
    /\ Chosen
    /\ "c_segfault" \in DOMAIN fin.catalog
    /\ NamesOf(fin.catalog["c_segfault"]) = {"socratic"}
    /\ fin.explore
    /\ StatRow("default", 2, <<10, 9, 9>>) \in fin.stats
    /\ StatRow("socratic", 2, <<10, 1, 1>>) \in fin.stats
    /\ fout = <<"socratic">>

\* the rows the selector is given, and the score of a variant in 240ths times
\* (e + 2) * max(1, e): (i + 1) / (e + 2) + 0.05 * d / max(1, e)
RowsAt == {r \in fin.stats : r.language = "c" /\ r.cluster_key = "c_segfault"
                             /\ r.hint_level = 2}
RowFor(name) == CHOOSE r \in RowsAt : r.hint_variant = name
Beats(a, b) ==
    LET ea == IF a.exposures > 1 THEN a.exposures ELSE 1
        eb == IF b.exposures > 1 THEN b.exposures ELSE 1
    IN  (20 * ea * (a.improvements + 1) + a.total_delta.w * (a.exposures + 2))
            * (eb * (b.exposures + 2))
        > (20 * eb * (b.improvements + 1) + b.total_delta.w * (b.exposures + 2))
            * (ea * (a.exposures + 2))
\* the entry is used, has several variants, and the draw does not explore
Exploits ==
    /\ Chosen /\ ~fin.explore
    /\ EntryIfNonEmpty(fin.catalog) # <<>>
    /\ Len(EntryIfNonEmpty(fin.catalog)[1].variants) > 1
Seen(name) == \E r \in RowsAt : r.hint_variant = name

\* C16: when the draw does not explore and every variant of the entry has a
\* HintStat row for (language, cluster, level), the selector returns the
\* variant with the greatest (improvements + 1) / (exposures + 2) + 0.05 *
\* total_delta / max(1, exposures), and of several such the one declared
\* first in the catalog.
C16_ExploitBest ==
    (Exploits /\ \A n \in NamesOf(EntryIfNonEmpty(fin.catalog)[1]) : Seen(n)) =>
        LET vs == EntryIfNonEmpty(fin.catalog)[1].variants
            k == CHOOSE i \in 1..Len(vs) : fout[1] = vs[i].name
        IN  /\ \A j \in 1..Len(vs) : ~Beats(RowFor(vs[j].name), RowFor(vs[k].name))
            /\ \A j \in 1..(k - 1) : Beats(RowFor(vs[k].name), RowFor(vs[j].name))

\* C16 witness: socratic, declared second, with 10 exposures, 9 improvements
\* and total_delta 9 is chosen over default with 10, 1 and 1.
C16_Witness ==
    /\ Exploits
    /\ "c_segfault" \in DOMAIN fin.catalog
    /\ NamesOf(fin.catalog["c_segfault"]) = {"default", "socratic"}
    /\ StatRow("default", 2, <<10, 1, 1>>) \in fin.stats
    /\ StatRow("socratic", 2, <<10, 9, 9>>) \in fin.stats
    /\ fout = <<"socratic">>

\* two variants with the same counters: the one declared first is chosen
C16_WitnessTie ==
    /\ Exploits
    /\ "c_segfault" \in DOMAIN fin.catalog
    /\ NamesOf(fin.catalog["c_segfault"]) = {"default", "socratic"}
    /\ StatRow("default", 2, <<10, 1, 1>>) \in fin.stats
    /\ StatRow("socratic", 2, <<10, 1, 1>>) \in fin.stats
    /\ fout = <<"default">>

\* C17: when the draw does not explore and some variant of a multi-variant
\* entry has no HintStat row for (language, cluster, level), the selector
\* returns a variant without a row, never one that has statistics.
C17_ColdStart ==
    (Exploits /\ \E n \in NamesOf(EntryIfNonEmpty(fin.catalog)[1]) : ~Seen(n)) =>
        /\ fout[1] \in NamesOf(EntryIfNonEmpty(fin.catalog)[1])
        /\ ~Seen(fout[1])

\* C17 witness: default has 10 exposures with 9 improvements, socratic has a
\* row of level 1 only: socratic is chosen at level 2.
C17_Witness ==
    /\ Exploits
    /\ "c_segfault" \in DOMAIN fin.catalog
    /\ NamesOf(fin.catalog["c_segfault"]) = {"default", "socratic"}
    /\ StatRow("default", 2, <<10, 9, 9>>) \in fin.stats
    /\ StatRow("socratic", 1, <<10, 9, 9>>) \in fin.stats
    /\ ~Seen("socratic")
    /\ fout = <<"socratic">>

\* ---- the text resolver, stated over the catalog ----
Resolved == fout # <<>>
\* the texts of a variant that are there and not empty, up to the level asked
TextsUpTo(v, level) == {l \in DOMAIN v.texts : l <= level /\ v.texts[l] # ""}
\* the text of the highest such level (the level asked for when it is there)
TextOrLiteral(v, level) ==
    IF TextsUpTo(v, level) = {} THEN LITERAL
    ELSE v.texts[CHOOSE l \in TextsUpTo(v, level) : \A m \in TextsUpTo(v, level) : m <= l]
\* named(v) says that variant v counts as the named one; the search order is:
\* the cluster's entry, else the generic cluster's, else the literal; the
\* named variant, else the first; the level asked, else the highest below
ResolutionOrder(named(_)) ==
    LET c == fin.catalog
        entry == IF "c_segfault" \in DOMAIN c THEN <<c["c_segfault"]>>
                 ELSE IF GENERIC_CLUSTER \in DOMAIN c THEN <<c[GENERIC_CLUSTER]>>
                 ELSE <<>>
    IN  IF entry = <<>> \/ entry[1].variants = <<>> THEN fout[1] = LITERAL
        ELSE LET vs == entry[1].variants
                 v == IF \E i \in 1..Len(vs) : named(vs[i])
                      THEN vs[CHOOSE i \in 1..Len(vs) : named(vs[i])]
                      ELSE vs[1]
             IN  fout[1] = TextOrLiteral(v, fin.hint_level)
ByName(v) == v.name = fin.hint_variant
ByNameWithLevels(v) == v.name = fin.hint_variant /\ DOMAIN v.texts # {}

\* C18 as stated: the resolver returns a non-empty text for every catalog,
\* level and variant, found in the order: the cluster's entry, else the
\* generic cluster's, else the literal; the named variant, else the first
\* one; the text of the level, else of the highest level below, else the
\* literal.
C18_Original == Resolved => (fout[1] # "" /\ ResolutionOrder(ByName))

\* C18 amended: the same, the named variant being used only when it has at
\* least one level; a named variant without any level is passed over for the
\* first variant of the entry.
C18_ResolutionOrder == Resolved => (fout[1] # "" /\ ResolutionOrder(ByNameWithLevels))

\* C18 witness: default, the second variant, is asked at level 3 and has a
\* text at level 1 only, which is returned.
C18_Witness ==
    /\ Resolved
    /\ fin.hint_variant = "default" /\ fin.hint_level = 3
    /\ "c_segfault" \in DOMAIN fin.catalog
    /\ Len(fin.catalog["c_segfault"].variants) = 2
    /\ DOMAIN fin.catalog["c_segfault"].variants[2].texts = {1}
    /\ fout = <<"d1">>

\* the empty catalog gives the literal
C18_WitnessEmpty ==
    /\ Resolved /\ DOMAIN fin.catalog = {} /\ fout = <<LITERAL>>

\* C19: the score ratio is 0 for a max_score <= 0 and else score/max_score
\* clamped to [0, 1]; so a submission with max_score <= 0 is never classified
\* c_no_hint_needed, its unused-variable warning is never suppressed, and a
\* previous Attempt with max_score <= 0 is never mastery: the level after it
\* is min(3, its level + 1).
C19_RatioFailsClosed ==
    LET score == fin.sm[1].w
        max_score == fin.sm[2]
        clamped == IF score < 0 THEN 0 ELSE IF score > max_score THEN max_score
                   ELSE score
    IN  /\ fout.ratio # <<>> =>
              IF max_score <= 0 THEN fout.ratio[1].n = Zero
              ELSE fout.ratio[1].n.w * max_score = clamped * fout.ratio[1].d
        /\ (fout.analysis # <<>> /\ max_score <= 0) =>
              /\ fout.analysis[1].cluster_key # "c_no_hint_needed"
              /\ fin.compile_error_text = "warning: unused variable"
                     => IsWarning(fout.analysis[1])
        /\ (fout.level # <<>> /\ max_score <= 0) =>
              fout.level[1] = (IF fin.hint_level < 2 THEN 2 ELSE 3)

\* C19 witness: 10 points out of a max_score of 0 with the warning: the ratio
\* is 0, the warning is returned, and the level after it goes from 1 to 2.
C19_Witness ==
    /\ fin.sm = <<Sc(10, 0), 0>> /\ fin.hint_level = 1
    /\ fin.compile_error_text = "warning: unused variable"
    /\ fout.ratio = << [n |-> Zero, d |-> 1] >>
    /\ fout.analysis # <<>> /\ IsWarning(fout.analysis[1])
    /\ fout.level = <<2>>

\* C20: when no two requests of the same context overlap (requests of
\* different contexts interleave), every HintStat row has improvements <=
\* exposures, in every state, those between the steps of a request included.
C20_ImprovementsWithinExposures ==
    \A r \in hint_stats : r.improvements <= r.exposures

\* C20 witness: while a request of the other context is in flight, a key has
\* been credited an improvement for each of its two exposures.
C20_Witness ==
    /\ \E t \in Threads : pc[t] \notin {"idle"}
    /\ \E r \in hint_stats : r.exposures = 2 /\ r.improvements = 2

\* the persisted Attempts that carry a key, and the sum of their delta_score
AttemptsOf(key) == {i \in 1..Len(attempts) : RowKey(attempts[i]) = key}
RECURSIVE SumDeltas(_)
SumDeltas(ids) ==
    IF ids = {} THEN Zero
    ELSE LET i == CHOOSE x \in ids : TRUE
             d == IF attempts[i].delta_score = <<>> THEN Zero
                  ELSE attempts[i].delta_score[1]
         IN  ScoreAdd(d, SumDeltas(ids \ {i}))

\* C21: with no request in flight, and no two requests of one context having
\* overlapped, for every key the HintStat row is the aggregate of the
\* Attempts: exposures is the number of Attempts carrying the key,
\* improvements the number of those with improved_vs_previous true, and
\* total_delta the sum of their non-null delta_score; a key no Attempt
\* carries has no row.
C21_StatsAggregateAttempts ==
    AllIdle =>
        \A k \in StatKeys(hint_stats) \cup {RowKey(attempts[i]) : i \in 1..Len(attempts)} :
            LET r == StatOf(hint_stats, k)
            IN  /\ r.exposures = Cardinality(AttemptsOf(k))
                /\ r.improvements =
                       Cardinality({i \in AttemptsOf(k) :
                                       attempts[i].improved_vs_previous = 1})
                /\ r.total_delta = SumDeltas(AttemptsOf(k))

\* C21 witness: four Attempts over two keys at least; one key has two
\* Attempts, one credited with an improvement of a whole point and the other
\* with a gain of 5e-10, which is no improvement.
C21_Witness ==
    /\ AllIdle /\ Len(attempts) = 4 /\ Cardinality(hint_stats) >= 2
    /\ \E r \in hint_stats :
          /\ r.exposures = 2 /\ r.improvements = 1 /\ r.total_delta = Sc(1, 1)
          /\ \E i, j \in AttemptsOf(RowKey(r)) :
                /\ attempts[i].delta_score = <<Sc(1, 0)>>
                /\ attempts[i].improved_vs_previous = 1
                /\ attempts[j].delta_score = <<Sc(0, 1)>>
                /\ attempts[j].improved_vs_previous = 0

\* the Attempts with the context key of a request
SameContext(r) ==
    {i \in 1..Len(attempts) :
        attempts[i].ctx = r.ctx /\ attempts[i].language = r.language}

\* C22: a request takes as previous the Attempt of its own context key that
\* is the most recent when it fetches (none when the context has no Attempt
\* then), whatever Attempts other contexts have added, writes feedback to
\* that Attempt only, adds an Attempt of its own context only, leaves the
\* Attempts of every other context as they were, and decides its level from
\* that previous Attempt alone: 1 without one or after mastery, else its
\* level plus one capped at 3.
C22_ContextIsolation ==
    [][\A t \in Threads :
        /\ (pc[t] = "idle" /\ pc'[t] # "idle") =>
               LET own == SameContext(req'[t])
               IN  IF own = {} THEN previous'[t] = <<>>
                   ELSE /\ previous'[t] # <<>>
                        /\ previous'[t][1].id \in own
                        /\ \A i \in own : i <= previous'[t][1].id
                        /\ previous'[t][1] = attempts[previous'[t][1].id]
        /\ (pc[t] # "idle" /\ pc'[t] # pc[t]) =>
               /\ \A i \in 1..Len(attempts) :
                      attempts'[i] # attempts[i] =>
                          /\ previous[t] # <<>> /\ i = previous[t][1].id
                          /\ attempts[i].ctx = req[t].ctx
                          /\ attempts[i].language = req[t].language
               /\ \A i \in (Len(attempts) + 1)..Len(attempts') :
                      /\ attempts'[i].ctx = req[t].ctx
                      /\ attempts'[i].language = req[t].language
        /\ (pc[t] = "choose" /\ pc'[t] = "bump_exp") =>
               loc'[t].hint_level =
                   (IF previous[t] = <<>> \/ MasteryRow(previous[t][1]) THEN 1
                    ELSE IF previous[t][1].hint_level = 1 THEN 2 ELSE 3)
      ]_vars

\* C22 witness: Attempts of k1, k2 and k1 again; the second request of k1 took
\* the first Attempt as previous (level 2, feedback written to it) and the
\* Attempt of k2 in between is untouched.
C22_Witness ==
    /\ AllIdle /\ Len(attempts) = 3
    /\ attempts[1].ctx = "k1" /\ attempts[2].ctx = "k2" /\ attempts[3].ctx = "k1"
    /\ attempts[1].improved_vs_previous # -1
    /\ attempts[2].improved_vs_previous = -1 /\ attempts[2].delta_score = <<>>
    /\ attempts[2].hint_level = 1 /\ attempts[3].hint_level = 2

\* C23: also when requests of one context overlap, the hint_level of that
\* context's Attempts in id order never falls from one Attempt to the next,
\* except right after an Attempt with score / max_score >= 0.999.
C23_LevelsNeverFallUnderOverlap ==
    \A i, j \in 1..Len(attempts) :
        (Follows(i, j) /\ ~MasteryRow(attempts[i])) =>
            attempts[j].hint_level >= attempts[i].hint_level

\* C23, the overlap at work: two requests of k1 fetched before either
\* inserted; one inserted at level 1, a third request followed it at level 2,
\* and then the other inserted the level 1 it had decided: 1, 2, 1 with no
\* Attempt at mastery.
C23_Overlapped ==
    /\ AllIdle /\ Len(attempts) = 3
    /\ \A i \in 1..3 : attempts[i].ctx = "k1" /\ ~MasteryRow(attempts[i])
    /\ [i \in 1..3 |-> attempts[i].hint_level] = <<1, 2, 1>>

====
